---------------------------- MODULE Spec2Model ----------------------------
(***************************************************************************)
(* A model of the GitHub-to-Vercel deployment agent (hrishi0102/bhindi):   *)
(* GitHubService (parseGitHubUrl, validateRepository), VercelService       *)
(* (createProject, getProject, createDeployment, getDeploymentStatus),     *)
(* DeploymentService (parseTokens, generateProjectName, deployRepository,  *)
(* getDeploymentStatus) and AppController (handleTool and its handlers,    *)
(* with the credentials in a Bearer token or in two headers).              *)
(*                                                                         *)
(* Text that the code inspects character by character (repository URLs,    *)
(* combined tokens, project names) is a sequence of one-character strings. *)
(* An error message is the sequence of the fragments that the code         *)
(* concatenates, so `prefix + detail` is prefix \o detail.                 *)
(***************************************************************************)
EXTENDS Integers, Sequences, FiniteSets

VARIABLES
    pc,        \* position of the call in flight: "idle", "called", an awaited request,
               \* "returned", "responded"
    call,      \* the method called, its arguments and its locals
    ret,       \* what the call returned or threw
    sent,      \* upstream requests issued by the call in flight and, for handleTool,
               \* what it sent to the client, in order
    received,  \* upstream responses received by the call in flight, in order
    projects   \* the projects that exist on the deployment platform

vars == <<pc, call, ret, sent, received, projects>>

(***************************************************************************)
(* Bounds of the model.                                                    *)
(***************************************************************************)
\* owner and repo segments are concatenations of at most this many pieces
MaxSegPieces == 2
\* free-form repository references are concatenations of at most this many pieces
MaxRawPieces == 3
\* combined credential strings have at most this many characters
MaxTokenLen == 6
\* caller-supplied project names have at most this many characters
MaxNameLen == 4

(***************************************************************************)
(* Results of a call.                                                      *)
(***************************************************************************)
None == [kind |-> "none"]

Return(v) == [kind |-> "return", value |-> v]

Throw(m) == [kind |-> "throw", message |-> m]

NoCall == [fn |-> "none"]

(***************************************************************************)
(* Character sequences.                                                    *)
(***************************************************************************)
Min(S) == CHOOSE x \in S : \A y \in S : x <= y

Max(S) == CHOOSE x \in S : \A y \in S : x >= y

Drop(s, n) == SubSeq(s, n + 1, Len(s))

Take(s, n) == SubSeq(s, 1, n)

StartsWith(s, p) == Len(p) <= Len(s) /\ Take(s, Len(p)) = p

EndsWith(s, p) == Len(p) <= Len(s) /\ Drop(s, Len(s) - Len(p)) = p

HasSlash(s) == \E i \in 1..Len(s) : s[i] = "/"

RECURSIVE Concat(_)
Concat(ss) == IF ss = <<>> THEN <<>> ELSE Head(ss) \o Concat(Tail(ss))

\* every concatenation of 1..n pieces
PieceStrings(pieces, n) ==
    { Concat(ps) : ps \in UNION { [1..k -> pieces] : k \in 1..n } }

HttpsGithub ==
    <<"h","t","t","p","s",":","/","/","g","i","t","h","u","b",".","c","o","m","/">>

GitAtGithub ==
    <<"g","i","t","@","g","i","t","h","u","b",".","c","o","m",":">>

HttpsGitlab ==
    <<"h","t","t","p","s",":","/","/","g","i","t","l","a","b",".","c","o","m","/">>

GitAtGitlab ==
    <<"g","i","t","@","g","i","t","l","a","b",".","c","o","m",":">>

DotGit == <<".","g","i","t">>

TreeMain == <<"/","t","r","e","e","/","m","a","i","n">>

\* the characters the regular-expression dot does not match; "LF" and "CR" stand
\* for the one-character strings U+000A and U+000D
LineTerminators == {"LF", "CR"}

(***************************************************************************)
(* GitHubService.parseGitHubUrl                                            *)
(***************************************************************************)
NoMatch == [matched |-> FALSE]

\* (?:\/.*)?$ on the rest t of the input
OptionalPath(t) ==
    \/ t = <<>>
    \/ /\ t # <<>>
       /\ t[1] = "/"
       /\ \A i \in 2..Len(t) : t[i] \notin LineTerminators

\* what must follow the repo group of pattern n, up to the end of the input
\*   1: (?:\.git)?(?:\/.*)?$     2: (?:\.git)?$     3: $
TailMatches(n, t) ==
    CASE n = 1 -> \/ OptionalPath(t)
                  \/ StartsWith(t, DotGit) /\ OptionalPath(Drop(t, Len(DotGit)))
      [] n = 2 -> t = <<>> \/ t = DotGit
      [] n = 3 -> t = <<>>

\* ([^\/]+)\/([^\/]+?) or ([^\/]+)\/([^\/]+) on t, then the tail of pattern n:
\* the owner group runs to the first "/", the repo group takes the fewest
\* characters (lazy, patterns 1 and 2) or the most (greedy, pattern 3) for which
\* the rest of the pattern matches
OwnerRepoMatch(n, t) ==
    LET slashes == { i \in 1..Len(t) : t[i] = "/" }
    IN  IF slashes = {} \/ Min(slashes) = 1
        THEN NoMatch
        ELSE LET i    == Min(slashes)
                 rest == Drop(t, i)
                 ks   == { k \in 1..Len(rest) :
                             /\ ~HasSlash(Take(rest, k))
                             /\ TailMatches(n, Drop(rest, k)) }
             IN  IF ks = {}
                 THEN NoMatch
                 ELSE [matched |-> TRUE,
                       owner   |-> Take(t, i - 1),
                       repo    |-> Take(rest, IF n = 3 THEN Max(ks) ELSE Min(ks))]

\* repoUrl.match(patterns[n])
PatternMatch(n, repoUrl) ==
    CASE n = 1 -> IF StartsWith(repoUrl, HttpsGithub)
                  THEN OwnerRepoMatch(1, Drop(repoUrl, Len(HttpsGithub)))
                  ELSE NoMatch
      [] n = 2 -> IF StartsWith(repoUrl, GitAtGithub)
                  THEN OwnerRepoMatch(2, Drop(repoUrl, Len(GitAtGithub)))
                  ELSE NoMatch
      [] n = 3 -> OwnerRepoMatch(3, repoUrl)

InvalidUrlMessage(repoUrl) == <<"Invalid GitHub repository URL: ">> \o repoUrl

\* a loop that keeps the last pattern that matches instead of returning at the first
parseGitHubUrl_lastMatch(repoUrl) ==
    LET hits == { n \in 1..3 : PatternMatch(n, repoUrl).matched }
    IN  IF hits = {}
        THEN Throw(InvalidUrlMessage(repoUrl))
        ELSE LET m == PatternMatch(Max(hits), repoUrl)
             IN  Return([owner |-> m.owner, repo |-> m.repo])

parseGitHubUrl(repoUrl) ==
    LET hits == { n \in 1..3 : PatternMatch(n, repoUrl).matched }
    IN  IF hits = {}
        THEN Throw(InvalidUrlMessage(repoUrl))
        ELSE LET m == PatternMatch(Min(hits), repoUrl)
             IN  Return([owner |-> m.owner, repo |-> m.repo])

(***************************************************************************)
(* Repository references handed to parseGitHubUrl.                         *)
(***************************************************************************)
SegmentPieces == { <<"a">>, DotGit, GitAtGithub }

Segments == PieceStrings(SegmentPieces, MaxSegPieces)

GitHubForms == {"https", "https.git", "https.git/tree/main", "ssh.git", "bare"}

OtherHostForms == {"gitlab https", "gitlab ssh.git"}

\* the text of form f for owner o and repo r
Reference(f, o, r) ==
    CASE f = "https"               -> HttpsGithub \o o \o <<"/">> \o r
      [] f = "https.git"           -> HttpsGithub \o o \o <<"/">> \o r \o DotGit
      [] f = "https.git/tree/main" -> HttpsGithub \o o \o <<"/">> \o r \o DotGit \o TreeMain
      [] f = "ssh.git"             -> GitAtGithub \o o \o <<"/">> \o r \o DotGit
      [] f = "bare"                -> o \o <<"/">> \o r
      [] f = "gitlab https"        -> HttpsGitlab \o o \o <<"/">> \o r
      [] f = "gitlab ssh.git"      -> GitAtGitlab \o o \o <<"/">> \o r \o DotGit

RawPieces == { <<"a">>, <<"/">>, DotGit, HttpsGithub, GitAtGithub, <<"LF">> }

RawReferences == PieceStrings(RawPieces, MaxRawPieces) \cup {<<>>}

\* calls of parseGitHubUrl: a reference composed from an owner and a repo, or free text
LocatorCalls ==
    { [fn |-> "parseGitHubUrl", repoUrl |-> Reference(f, o, r),
       form |-> f, owner |-> o, repo |-> r] :
         f \in GitHubForms \cup OtherHostForms, o \in Segments, r \in Segments }
    \cup
    { [fn |-> "parseGitHubUrl", repoUrl |-> u,
       form |-> "raw", owner |-> <<>>, repo |-> <<>>] : u \in RawReferences }

InitLocator ==
    /\ pc = "called"
    /\ call \in LocatorCalls
    /\ ret = None
    /\ sent = <<>>
    /\ received = <<>>
    /\ projects = {}

ParseGitHubUrl ==
    /\ pc = "called"
    /\ call.fn = "parseGitHubUrl"
    /\ ret' = parseGitHubUrl(call.repoUrl)
    /\ pc' = "returned"
    /\ UNCHANGED <<call, sent, received, projects>>

NextLocator == ParseGitHubUrl

SpecLocator == InitLocator /\ [][NextLocator]_vars

LocatorReturned == pc = "returned" /\ call.fn = "parseGitHubUrl"

\* C1 (as stated): for every non-empty owner o and repo r without "/", each of the
\* five GitHub forms of the reference parses to {owner: o, repo: r}.
C1_AsStated ==
    (LocatorReturned /\ call.form \in GitHubForms)
        => ret = Return([owner |-> call.owner, repo |-> call.repo])

\* C1 (amended): the same, for every r that does not end in ".git" and every o
\* that does not begin with "git@github.com:".
C1_FormsAgree ==
    (/\ LocatorReturned
     /\ call.form \in GitHubForms
     /\ ~EndsWith(call.repo, DotGit)
     /\ ~StartsWith(call.owner, GitAtGithub))
        => ret = Return([owner |-> call.owner, repo |-> call.repo])

\* the SSH form, which both the second and the third pattern match, has been parsed
C1_Witness ==
    /\ LocatorReturned
    /\ call.form = "ssh.git"
    /\ ~EndsWith(call.repo, DotGit)
    /\ ~StartsWith(call.owner, GitAtGithub)
    /\ ret = Return([owner |-> call.owner, repo |-> call.repo])

\* C2: parseGitHubUrl throws the invalid-reference error for a string without an
\* owner/repo separator and for every reference to another host, HTTPS or SSH.
C2_RejectsUnrecognized ==
    (/\ LocatorReturned
     /\ \/ ~HasSlash(call.repoUrl)
        \/ call.form \in OtherHostForms)
        => ret = Throw(InvalidUrlMessage(call.repoUrl))

\* C3: whenever parseGitHubUrl returns a pair, owner and repo are non-empty,
\* contain no "/", and the repo does not end in ".git".
C3_CanonicalPair ==
    (LocatorReturned /\ ret.kind = "return")
        => /\ ret.value.owner # <<>>
           /\ ret.value.repo # <<>>
           /\ ~HasSlash(ret.value.owner)
           /\ ~HasSlash(ret.value.repo)
           /\ ~EndsWith(ret.value.repo, DotGit)

(***************************************************************************)
(* DeploymentService.parseTokens                                           *)
(***************************************************************************)
\* the white space String.prototype.trim removes
WhiteSpace == {" ", "LF", "CR"}

RECURSIVE TrimStart(_)
TrimStart(s) ==
    IF s # <<>> /\ Head(s) \in WhiteSpace THEN TrimStart(Tail(s)) ELSE s

RECURSIVE TrimEnd(_)
TrimEnd(s) ==
    IF s # <<>> /\ s[Len(s)] \in WhiteSpace THEN TrimEnd(Take(s, Len(s) - 1)) ELSE s

\* s.trim()
Trim(s) == TrimEnd(TrimStart(s))

\* s.split(sep) for a one-character separator: always at least one part
RECURSIVE Split(_, _)
Split(s, sep) ==
    LET at == { i \in 1..Len(s) : s[i] = sep }
    IN  IF at = {}
        THEN <<s>>
        ELSE <<Take(s, Min(at) - 1)>> \o Split(Drop(s, Min(at)), sep)

TokenFormatMessage == <<"Token format should be \"github_token:vercel_token\"">>

TokensRequiredMessage == <<"Both GitHub and Vercel tokens are required">>

\* the tokens returned as they were split, without trimming
parseTokens_untrimmed(combinedToken) ==
    LET parts == Split(combinedToken, ":")
    IN  IF Len(parts) # 2
        THEN Throw(TokenFormatMessage)
        ELSE IF Trim(parts[1]) = <<>> \/ Trim(parts[2]) = <<>>
             THEN Throw(TokensRequiredMessage)
             ELSE Return([githubToken |-> parts[1], vercelToken |-> parts[2]])

parseTokens(combinedToken) ==
    LET parts == Split(combinedToken, ":")
    IN  IF Len(parts) # 2
        THEN Throw(TokenFormatMessage)
        ELSE IF Trim(parts[1]) = <<>> \/ Trim(parts[2]) = <<>>
             THEN Throw(TokensRequiredMessage)
             ELSE Return([githubToken |-> Trim(parts[1]),
                          vercelToken |-> Trim(parts[2])])

TokenChars == {"g", "v", " ", ":"}

CombinedTokens == UNION { [1..n -> TokenChars] : n \in 0..MaxTokenLen }

InitTokens ==
    /\ pc = "called"
    /\ call \in { [fn |-> "parseTokens", combinedToken |-> t] : t \in CombinedTokens }
    /\ ret = None
    /\ sent = <<>>
    /\ received = <<>>
    /\ projects = {}

ParseTokens ==
    /\ pc = "called"
    /\ call.fn = "parseTokens"
    /\ ret' = parseTokens(call.combinedToken)
    /\ pc' = "returned"
    /\ UNCHANGED <<call, sent, received, projects>>

NextTokens == ParseTokens

SpecTokens == InitTokens /\ [][NextTokens]_vars

TokensReturned == pc = "returned" /\ call.fn = "parseTokens"

Colons(s) == { i \in 1..Len(s) : s[i] = ":" }

Blank(s) == \A i \in 1..Len(s) : s[i] \in WhiteSpace

\* s from its first to its last character that is not white space
Core(s) ==
    LET solid == { i \in 1..Len(s) : s[i] \notin WhiteSpace }
    IN  IF solid = {} THEN <<>> ELSE SubSeq(s, Min(solid), Max(solid))

\* C4: parseTokens returns the two trimmed sides when the string has exactly one
\* ":" and neither side is blank, throws the format error when it has no ":" or
\* more than one, and throws the both-required error when it has exactly one ":"
\* and a side is empty or blank.
C4_ParseTokens ==
    TokensReturned =>
        LET s  == call.combinedToken
            n  == Cardinality(Colons(s))
            i  == Min(Colons(s))
            gh == Take(s, i - 1)
            vc == Drop(s, i)
        IN  IF n # 1
            THEN ret = Throw(TokenFormatMessage)
            ELSE IF Blank(gh) \/ Blank(vc)
                 THEN ret = Throw(TokensRequiredMessage)
                 ELSE ret = Return([githubToken |-> Core(gh), vercelToken |-> Core(vc)])

\* a pair was returned from a string whose two sides both needed trimming
C4_Witness ==
    /\ TokensReturned
    /\ ret.kind = "return"
    /\ call.combinedToken = <<" ", "g", " ", ":", "v", " ">>
    /\ ret.value = [githubToken |-> <<"g">>, vercelToken |-> <<"v">>]

(***************************************************************************)
(* Repository metadata: the GitHub API's answer and GitHubRepoInfo.        *)
(***************************************************************************)
Acme == <<"A","c","m","e">>

Site == <<"S","i","t","e">>

\* bodies of successful answers of GET /repos/{owner}/{repo}
GitHubData ==
    { [owner |-> [login |-> Acme], name |-> Site, default_branch |-> "main",
       private |-> FALSE, full_name |-> Acme \o <<"/">> \o Site, id |-> 42],
      [owner |-> [login |-> <<"o">>], name |-> <<"R","_","x">>, default_branch |-> "develop",
       private |-> TRUE, full_name |-> <<"o","/","R","_","x">>, id |-> 7] }

\* the GitHubRepoInfo validateRepository builds from the answer's data
GitHubRepoInfo(data) ==
    [owner         |-> data.owner.login,
     repo          |-> data.name,
     defaultBranch |-> data.default_branch,
     isPrivate     |-> data.private,
     fullName      |-> data.full_name,
     repoId        |-> data.id]

RepoInfos == { GitHubRepoInfo(d) : d \in GitHubData }

(***************************************************************************)
(* DeploymentService.generateProjectName                                   *)
(***************************************************************************)
\* an optional string that was not given; no text equals it
Undefined == <<"undefined">>

\* JavaScript truthiness of an optional string
Truthy(x) == x # Undefined /\ x # <<>>

UpperLetters ==
    <<"A","B","C","D","E","F","G","H","I","J","K","L","M",
      "N","O","P","Q","R","S","T","U","V","W","X","Y","Z">>

LowerLetters ==
    <<"a","b","c","d","e","f","g","h","i","j","k","l","m",
      "n","o","p","q","r","s","t","u","v","w","x","y","z">>

Digits == {"0","1","2","3","4","5","6","7","8","9"}

\* s.toLowerCase()
ToLowerCase(s) ==
    [i \in 1..Len(s) |->
        IF \E k \in 1..26 : UpperLetters[k] = s[i]
        THEN LowerLetters[CHOOSE k \in 1..26 : UpperLetters[k] = s[i]]
        ELSE s[i]]

\* the class [a-z0-9-]
NameClass == { LowerLetters[k] : k \in 1..26 } \cup Digits \cup {"-"}

\* s.replace(/[^a-z0-9-]/g, '-')
ReplaceOutsideClass(s) ==
    [i \in 1..Len(s) |-> IF s[i] \in NameClass THEN s[i] ELSE "-"]

\* s.replace(/-+/g, '-')
RECURSIVE CollapseHyphens(_)
CollapseHyphens(s) ==
    IF Len(s) < 2
    THEN s
    ELSE IF s[1] = "-" /\ s[2] = "-"
         THEN CollapseHyphens(Tail(s))
         ELSE <<s[1]>> \o CollapseHyphens(Tail(s))

\* s.replace(/^-|-$/g, ''): one "-" at the start, then one "-" at the end of what follows
StripEdgeHyphens(s) ==
    LET t == IF s # <<>> /\ s[1] = "-" THEN Tail(s) ELSE s
    IN  IF t # <<>> /\ t[Len(t)] = "-" THEN Take(t, Len(t) - 1) ELSE t

\* the first and last "-" stripped before the runs are collapsed
generateProjectName_stripFirst(repoInfo, customName) ==
    IF Truthy(customName)
    THEN CollapseHyphens(StripEdgeHyphens(ReplaceOutsideClass(ToLowerCase(customName))))
    ELSE ToLowerCase(repoInfo.owner \o <<"-">> \o repoInfo.repo)

generateProjectName(repoInfo, customName) ==
    IF Truthy(customName)
    THEN StripEdgeHyphens(CollapseHyphens(ReplaceOutsideClass(ToLowerCase(customName))))
    ELSE ToLowerCase(repoInfo.owner \o <<"-">> \o repoInfo.repo)

NameChars == {"A", "b", "7", "-", "!"}

MyProjectBang == <<"M","y"," ","P","r","o","j","e","c","t","!">>

HyphensAB == <<"-","-","a","-","-","b","-","-">>

CustomNames ==
    UNION { [1..n -> NameChars] : n \in 0..MaxNameLen }
        \cup {MyProjectBang, HyphensAB, Undefined}

InitName ==
    /\ pc = "called"
    /\ call \in { [fn |-> "generateProjectName", repoInfo |-> i, customName |-> c] :
                    i \in RepoInfos, c \in CustomNames }
    /\ ret = None
    /\ sent = <<>>
    /\ received = <<>>
    /\ projects = {}

GenerateProjectName ==
    /\ pc = "called"
    /\ call.fn = "generateProjectName"
    /\ ret' = Return(generateProjectName(call.repoInfo, call.customName))
    /\ pc' = "returned"
    /\ UNCHANGED <<call, sent, received, projects>>

NextName == GenerateProjectName

SpecName == InitName /\ [][NextName]_vars

NameReturned == pc = "returned" /\ call.fn = "generateProjectName"

\* s lowercased with every character outside [a-z0-9-] turned into "-", keeping
\* of each run of "-" only its first, and that only when the run neither starts
\* nor ends the text
Sanitized(s) ==
    LET t == [i \in 1..Len(s) |->
                LET c == ToLowerCase(<<s[i]>>)[1]
                IN  IF c \in NameClass THEN c ELSE "-"]
        Kept(x) ==
            \/ x[2] # "-"
            \/ /\ x[1] > 1
               /\ t[x[1] - 1] # "-"
               /\ \E j \in (x[1] + 1)..Len(t) : t[j] # "-"
        kept == SelectSeq([i \in 1..Len(t) |-> <<i, t[i]>>], Kept)
    IN  [i \in 1..Len(kept) |-> kept[i][2]]

Synthesized(repoInfo) == ToLowerCase(repoInfo.owner) \o <<"-">> \o ToLowerCase(repoInfo.repo)

\* C7 (as stated): whenever the caller supplies a project name the resolved
\* name is that name sanitized; when none is supplied it is "<owner>-<repo>"
\* lowercased.
C7_AsStated ==
    NameReturned =>
        IF call.customName # Undefined
        THEN ret = Return(Sanitized(call.customName))
        ELSE ret = Return(Synthesized(call.repoInfo))

\* C7 (amended): a supplied non-empty project name resolves to that name
\* sanitized ("My Project!" to "my-project", "--a--b--" to "a-b"); an omitted or
\* empty name resolves to "<owner>-<repo>" lowercased (Acme, Site: "acme-site").
C7_ProjectName ==
    NameReturned =>
        /\ IF call.customName # Undefined /\ call.customName # <<>>
           THEN ret = Return(Sanitized(call.customName))
           ELSE ret = Return(Synthesized(call.repoInfo))
        /\ call.customName = MyProjectBang
            => ret.value = <<"m","y","-","p","r","o","j","e","c","t">>
        /\ call.customName = HyphensAB => ret.value = <<"a","-","b">>
        /\ (call.customName = Undefined /\ call.repoInfo.owner = Acme /\ call.repoInfo.repo = Site)
            => ret.value = <<"a","c","m","e","-","s","i","t","e">>

\* a name with leading, doubled and trailing "-" has been sanitized
C7_Witness ==
    /\ NameReturned
    /\ call.customName = HyphensAB
    /\ ret = Return(<<"a","-","b">>)

(***************************************************************************)
(* The services that talk to GitHub and Vercel.  One call is in flight at  *)
(* a time; it runs from one awaited request to the next in a single step,  *)
(* and the answer it resumes with is chosen by the environment.            *)
(***************************************************************************)
GitHubTokens == {"ghp_test_token_123"}

VercelTokens == {"vercel_test_token_456"}

AcmeSiteUrl ==
    HttpsGithub \o <<"a","c","m","e","/","s","i","t","e">>

InvalidUrl == <<"i","n","v","a","l","i","d","-","u","r","l">>

\* references passed to validateRepository: three that parse, two that do not
RepoUrls ==
    { AcmeSiteUrl,
      <<"o","/","R","_","x">>,
      GitAtGithub \o <<"o","/","R","_","x">> \o DotGit,
      InvalidUrl,
      HttpsGitlab \o <<"a","c","m","e","/","s","i","t","e">> }

HasStatus(error, n) == "status" \in DOMAIN error /\ error.status = n

\* what octokit.rest.repos.get rejects with: a RequestError carrying the HTTP
\* status, or a transport error that has none
GitHubErrors ==
    { [status |-> 404, message |-> <<"Not Found">>],
      [status |-> 401, message |-> <<"Bad credentials">>],
      [status |-> 403, message |-> <<"Resource not accessible by personal access token">>],
      [status |-> 500, message |-> <<"Internal Server Error">>],
      [message |-> <<"request to https://api.github.com failed">>] }

GitHubResponses ==
    { [ok |-> TRUE, data |-> d] : d \in GitHubData }
        \cup { [ok |-> FALSE, error |-> e] : e \in GitHubErrors }

\* the 401 and 403 branches exchanged
validateRepositoryCatch_swapped(error, repoUrl) ==
    IF HasStatus(error, 404)
    THEN Throw(<<"Repository not found or not accessible: ">> \o repoUrl)
    ELSE IF HasStatus(error, 403)
    THEN Throw(<<"GitHub token is invalid or expired">>)
    ELSE IF HasStatus(error, 401)
    THEN Throw(<<"GitHub token does not have permission to access this repository">>)
    ELSE Throw(<<"GitHub API error: ">> \o error.message)

\* the catch block of validateRepository; it receives whatever the try block threw
validateRepositoryCatch(error, repoUrl) ==
    IF HasStatus(error, 404)
    THEN Throw(<<"Repository not found or not accessible: ">> \o repoUrl)
    ELSE IF HasStatus(error, 401)
    THEN Throw(<<"GitHub token is invalid or expired">>)
    ELSE IF HasStatus(error, 403)
    THEN Throw(<<"GitHub token does not have permission to access this repository">>)
    ELSE Throw(<<"GitHub API error: ">> \o error.message)

\* validateRepository up to its await: the reference is parsed inside the try
\* block, so a parse error lands in the catch block as an Error without status
ValidateRepository(token, repoUrl) ==
    /\ pc = "idle"
    /\ call' = [fn |-> "validateRepository", token |-> token, repoUrl |-> repoUrl]
    /\ LET parsed == parseGitHubUrl(repoUrl)
       IN  IF parsed.kind = "throw"
           THEN /\ ret' = validateRepositoryCatch([message |-> parsed.message], repoUrl)
                /\ pc' = "returned"
                /\ sent' = <<>>
           ELSE /\ ret' = None
                /\ pc' = "repos.get"
                /\ sent' = <<[api |-> "github", method |-> "GET", auth |-> token,
                              owner |-> parsed.value.owner, repo |-> parsed.value.repo]>>
    /\ received' = <<>>
    /\ UNCHANGED projects

\* validateRepository resumed with the answer of octokit.rest.repos.get
ReposGetResponse ==
    /\ pc = "repos.get"
    /\ \E resp \in GitHubResponses :
         /\ received' = Append(received, resp)
         /\ ret' = IF resp.ok
                   THEN Return(GitHubRepoInfo(resp.data))
                   ELSE validateRepositoryCatch(resp.error, call.repoUrl)
    /\ pc' = "returned"
    /\ UNCHANGED <<call, sent, projects>>

(***************************************************************************)
(* VercelService.getProject and VercelService.createProject                *)
(***************************************************************************)
Static == <<"s","t","a","t","i","c">>

NextJs == <<"n","e","x","t","j","s">>

\* the framework argument; Undefined takes the parameter's default
Frameworks == {Static, NextJs, Undefined}

\* null where a string is expected
NullString == <<"null">>

\* null where an object is expected
NullObject == [null |-> TRUE]

AcmeSiteName == <<"a","c","m","e","-","s","i","t","e">>

ProjectNames == { AcmeSiteName, <<"a","-","b">> }

\* the project the platform keeps under a name
VercelProject(name) ==
    [id |-> <<"prj_">> \o name, name |-> name, accountId |-> "team_1"]

\* a response fetch resolves with
Response(status, statusText, body) ==
    [kind |-> "response", status |-> status, ok |-> status \in 200..299,
     statusText |-> statusText, body |-> body]

\* an error fetch rejects with
Rejection(message) == [kind |-> "reject", message |-> message]

ErrorBody(message) == [error |-> [message |-> message]]

\* failures any Vercel request can meet: an HTTP error whose body carries a
\* message or none, or a transport error
VercelFailures ==
    { Response(500, "Internal Server Error", ErrorBody("")),
      Response(403, "Forbidden", ErrorBody("Not authorized")),
      Rejection("socket hang up"),
      Rejection("connect ETIMEDOUT 76.76.21.404:443") }

\* answers of GET /v9/projects/{name}
LookupResponses(name) ==
    (IF VercelProject(name) \in projects
     THEN {Response(200, "OK", VercelProject(name))}
     ELSE {Response(404, "Not Found", ErrorBody("Project not found"))})
        \cup VercelFailures

\* answers of POST /v9/projects
CreateResponses(name) ==
    (IF VercelProject(name) \in projects
     THEN {Response(409, "Conflict", ErrorBody("Project already exists"))}
     ELSE {Response(200, "OK", VercelProject(name))})
        \cup VercelFailures

\* `${response.status}`
StatusString(status) ==
    CASE status = 200 -> "200"
      [] status = 403 -> "403"
      [] status = 404 -> "404"
      [] status = 409 -> "409"
      [] status = 500 -> "500"

\* message.includes('404'), for a message made of the fragments above
Includes404(message) ==
    \E i \in 1..Len(message) :
        message[i] \in {"404", "Not Found 404", "connect ETIMEDOUT 76.76.21.404:443"}

\* errorData.error?.message || response.statusText
ErrorText(resp) ==
    IF resp.body.error.message # "" THEN resp.body.error.message ELSE resp.statusText

\* getProject: null for a 404 and for an error whose message includes "404",
\* the body for a success, the error otherwise
getProject(resp) ==
    LET thrown == IF resp.kind = "reject"
                  THEN <<resp.message>>
                  ELSE <<"HTTP ", StatusString(resp.status), ": ", resp.statusText>>
    IN  IF resp.kind = "response" /\ resp.status = 404
        THEN Return(NullObject)
        ELSE IF resp.kind = "response" /\ resp.ok
        THEN Return(resp.body)
        ELSE IF Includes404(thrown) THEN Return(NullObject) ELSE Throw(thrown)

\* the existing project is looked up and then ignored
UseExisting_never(lookup) == FALSE

\* the inner try of createProject: `if (existing) return existing`, and whatever
\* getProject throws is swallowed
UseExisting(lookup) == lookup.kind = "return" /\ lookup.value # NullObject

\* the framework sent as it was given, "static" included
ProjectData_literal(projectName, repoInfo, framework) ==
    [name          |-> projectName,
     gitRepository |-> [type |-> "github", repo |-> repoInfo.fullName],
     framework     |-> framework]

\* the body of the create request
ProjectData(projectName, repoInfo, framework) ==
    [name          |-> projectName,
     gitRepository |-> [type |-> "github", repo |-> repoInfo.fullName],
     framework     |-> IF framework = Static THEN NullString ELSE framework]

\* the create request's failure reported without the upstream message
createProjectResult_bare(resp) ==
    IF resp.kind = "reject"
    THEN Throw(<<"Failed to create Vercel project: ">>)
    ELSE IF ~resp.ok
    THEN Throw(<<"Failed to create Vercel project: ", "Vercel API error: ">>)
    ELSE Return(resp.body)

\* createProject after the create request: the outer catch wraps every failure
createProjectResult(resp) ==
    IF resp.kind = "reject"
    THEN Throw(<<"Failed to create Vercel project: ", resp.message>>)
    ELSE IF ~resp.ok
    THEN Throw(<<"Failed to create Vercel project: ", "Vercel API error: ", ErrorText(resp)>>)
    ELSE Return(resp.body)

\* createProject up to its first await: getProject's GET
CreateProject(token, projectName, repoInfo, framework) ==
    /\ pc = "idle"
    /\ call' = [fn |-> "createProject", token |-> token, projectName |-> projectName,
                repoInfo |-> repoInfo,
                framework |-> IF framework = Undefined THEN Static ELSE framework]
    /\ sent' = <<[api |-> "vercel", method |-> "GET", auth |-> token,
                  path |-> <<"/v9/projects/">> \o projectName]>>
    /\ received' = <<>>
    /\ ret' = None
    /\ pc' = "getProject"
    /\ UNCHANGED projects

\* createProject resumed with the lookup's answer: return the existing project,
\* or issue the create request
GetProjectResponse ==
    /\ pc = "getProject"
    /\ \E resp \in LookupResponses(call.projectName) :
         /\ received' = Append(received, resp)
         /\ IF UseExisting(getProject(resp))
            THEN /\ ret' = Return(getProject(resp).value)
                 /\ pc' = "returned"
                 /\ sent' = sent
            ELSE /\ ret' = None
                 /\ pc' = "postProject"
                 /\ sent' = Append(sent,
                        [api |-> "vercel", method |-> "POST", auth |-> call.token,
                         path |-> <<"/v9/projects">>,
                         body |-> ProjectData(call.projectName, call.repoInfo,
                                              call.framework)])
    /\ UNCHANGED <<call, projects>>

\* createProject resumed with the create request's answer; a success has
\* created the project on the platform
PostProjectResponse ==
    /\ pc = "postProject"
    /\ \E resp \in CreateResponses(call.projectName) :
         /\ received' = Append(received, resp)
         /\ ret' = createProjectResult(resp)
         /\ projects' = IF resp.kind = "response" /\ resp.ok
                        THEN projects \cup {resp.body}
                        ELSE projects
    /\ pc' = "returned"
    /\ UNCHANGED <<call, sent>>

(***************************************************************************)
(* VercelService.getDeploymentStatus and                                   *)
(* DeploymentService.getDeploymentStatus                                   *)
(***************************************************************************)
DeploymentIds == {"dpl_1", "dpl_2"}

\* the keys of the statusMessages object literal
statusMessages ==
    [BUILDING     |-> "Deployment is currently building",
     ERROR        |-> "Deployment failed with errors",
     INITIALIZING |-> "Deployment is initializing",
     QUEUED       |-> "Deployment is queued and waiting to start",
     READY        |-> "Deployment is live and ready",
     CANCELED     |-> "Deployment was canceled"]

\* statusMessages is a plain object: a key it does not own is looked up in
\* Object.prototype, whose members are functions and objects, all truthy
ObjectPrototypeMembers ==
    {"constructor", "toString", "toLocaleString", "valueOf", "hasOwnProperty",
     "isPrototypeOf", "propertyIsEnumerable", "__proto__"}

\* statusMessages[state] || 'Unknown deployment status'
StatusMessage(state) ==
    IF state \in DOMAIN statusMessages
    THEN statusMessages[state]
    ELSE IF state \in ObjectPrototypeMembers
    THEN "[Object.prototype member]"
    ELSE "Unknown deployment status"

\* the state values the platform may answer with: the six of VercelDeployment
\* and others
PlatformStates ==
    DOMAIN statusMessages \cup {"PENDING", "ready", "", "constructor", "toString"}

VercelDeployment(id, state) ==
    [id |-> id, url |-> "acme-site.vercel.app", name |-> AcmeSiteName,
     state |-> state, projectId |-> VercelProject(AcmeSiteName).id]

\* answers of GET /v13/deployments/{id}
DeploymentResponses(id) ==
    { Response(200, "OK", VercelDeployment(id, st)) : st \in PlatformStates }
        \cup { Response(404, "Not Found", ErrorBody("Deployment not found")) }
        \cup VercelFailures

\* VercelService.getDeploymentStatus after its request
vercelGetDeploymentStatus(resp) ==
    IF resp.kind = "reject"
    THEN Throw(<<"Failed to get deployment status: ", resp.message>>)
    ELSE IF ~resp.ok
    THEN Throw(<<"Failed to get deployment status: ", "Vercel API error: ", ErrorText(resp)>>)
    ELSE Return(resp.body)

\* DeploymentService.getDeploymentStatus after the awaited call
getDeploymentStatus(fetched) ==
    IF fetched.kind = "throw"
    THEN Throw(<<"Failed to get deployment status: ">> \o fetched.message)
    ELSE LET deployment == fetched.value
         IN  Return([deployment |-> deployment,
                     status     |-> deployment.state,
                     message    |-> StatusMessage(deployment.state),
                     isLive     |-> deployment.state = "READY",
                     hasError   |-> deployment.state = "ERROR"])

\* getDeploymentStatus up to its await
GetDeploymentStatus(vercelToken, deploymentId) ==
    /\ pc = "idle"
    /\ call' = [fn |-> "getDeploymentStatus", vercelToken |-> vercelToken,
                deploymentId |-> deploymentId]
    /\ sent' = <<[api |-> "vercel", method |-> "GET", auth |-> vercelToken,
                  path |-> <<"/v13/deployments/", deploymentId>>]>>
    /\ received' = <<>>
    /\ ret' = None
    /\ pc' = "getDeployment"
    /\ UNCHANGED projects

\* getDeploymentStatus resumed with the answer
GetDeploymentResponse ==
    /\ pc = "getDeployment"
    /\ \E resp \in DeploymentResponses(call.deploymentId) :
         /\ received' = Append(received, resp)
         /\ ret' = getDeploymentStatus(vercelGetDeploymentStatus(resp))
    /\ pc' = "returned"
    /\ UNCHANGED <<call, sent, projects>>

(***************************************************************************)
(* The services: calls and answers.                                        *)
(***************************************************************************)
\* the caller takes the result; the next call can start
Settle ==
    /\ pc = "returned"
    /\ pc' = "idle"
    /\ call' = NoCall
    /\ ret' = None
    /\ sent' = <<>>
    /\ received' = <<>>
    /\ UNCHANGED projects

Init ==
    /\ pc = "idle"
    /\ call = NoCall
    /\ ret = None
    /\ sent = <<>>
    /\ received = <<>>
    /\ projects = {}

Next ==
    \/ \E t \in GitHubTokens, u \in RepoUrls : ValidateRepository(t, u)
    \/ ReposGetResponse
    \/ \E t \in VercelTokens, n \in ProjectNames, i \in RepoInfos, f \in Frameworks :
           CreateProject(t, n, i, f)
    \/ GetProjectResponse
    \/ PostProjectResponse
    \/ \E t \in VercelTokens, d \in DeploymentIds : GetDeploymentStatus(t, d)
    \/ GetDeploymentResponse
    \/ Settle

Spec == Init /\ [][Next]_vars

(***************************************************************************)
(* Properties of the services.                                             *)
(***************************************************************************)
ValidateReturned == pc = "returned" /\ call.fn = "validateRepository"

\* C5: validateRepository maps a failed repository lookup to the error its HTTP
\* status selects (404 not found, 401 invalid credential, 403 insufficient
\* permission, anything else the generic error with the upstream message), and
\* a successful lookup to the metadata of the answer.
C5_LookupOutcome ==
    (ValidateReturned /\ Len(received) = 1) =>
        LET r == received[1]
        IN  IF r.ok
            THEN ret = Return([owner         |-> r.data.owner.login,
                               repo          |-> r.data.name,
                               defaultBranch |-> r.data.default_branch,
                               isPrivate     |-> r.data.private,
                               fullName      |-> r.data.full_name,
                               repoId        |-> r.data.id])
            ELSE IF "status" \in DOMAIN r.error /\ r.error.status \in {404, 401, 403}
            THEN ret = Throw(
                    CASE r.error.status = 404 ->
                           <<"Repository not found or not accessible: ">> \o call.repoUrl
                      [] r.error.status = 401 ->
                           <<"GitHub token is invalid or expired">>
                      [] r.error.status = 403 ->
                           <<"GitHub token does not have permission to access this repository">>)
            ELSE ret = Throw(<<"GitHub API error: ">> \o r.error.message)

\* a lookup answered 403 has been mapped
C5_Witness ==
    /\ ValidateReturned
    /\ Len(received) = 1
    /\ ~received[1].ok
    /\ HasStatus(received[1].error, 403)
    /\ ret = Throw(<<"GitHub token does not have permission to access this repository">>)

\* C6: when the reference does not parse, validateRepository fails with the
\* Locator's own error, "Invalid GitHub repository URL: <input>", and sends no
\* request to GitHub.
C6_PropagatesInvalidReference ==
    (ValidateReturned /\ parseGitHubUrl(call.repoUrl).kind = "throw") =>
        /\ ret = Throw(InvalidUrlMessage(call.repoUrl))
        /\ sent = <<>>

StatusReturned == pc = "returned" /\ call.fn = "getDeploymentStatus"

\* C8: for every state the platform answers with, getDeploymentStatus returns the
\* raw state as status, isLive exactly for READY, hasError exactly for ERROR, and
\* as message the table entry of the six enumerated states and "Unknown
\* deployment status" for every other state.
C8_StatusSummary ==
    (StatusReturned /\ received[1].kind = "response" /\ received[1].ok) =>
        LET state == received[1].body.state
        IN  /\ ret.kind = "return"
            /\ ret.value.status = state
            /\ ret.value.isLive = (state = "READY")
            /\ ret.value.hasError = (state = "ERROR")
            /\ ~(ret.value.isLive /\ ret.value.hasError)
            /\ ret.value.message =
                 CASE state = "BUILDING"     -> "Deployment is currently building"
                   [] state = "ERROR"        -> "Deployment failed with errors"
                   [] state = "INITIALIZING" -> "Deployment is initializing"
                   [] state = "QUEUED"       -> "Deployment is queued and waiting to start"
                   [] state = "READY"        -> "Deployment is live and ready"
                   [] state = "CANCELED"     -> "Deployment was canceled"
                   [] OTHER                  -> "Unknown deployment status"

CreateProjectCalled == call.fn = "createProject" /\ Len(received) >= 1

\* the lookup answered with a project
LookupFound == received[1].kind = "response" /\ received[1].status = 200

Posts == { i \in 1..Len(sent) : sent[i].method = "POST" }

\* C9: a createProject whose lookup succeeds returns the project of the lookup
\* and issues no create request, whatever framework and metadata it was given
\* and whatever calls came before it.
C9_ExistingProjectReused ==
    (CreateProjectCalled /\ LookupFound) =>
        /\ pc = "returned"
        /\ ret = Return(received[1].body)
        /\ Posts = {}
        /\ Len(sent) = 1

\* an existing project was returned to a call that asked for another framework
C9_Witness ==
    /\ CreateProjectCalled
    /\ LookupFound
    /\ pc = "returned"
    /\ call.framework = NextJs
    /\ ret.value \in projects

\* the upstream message of a failed create request
CreateFailureText(resp) ==
    IF resp.kind = "reject"
    THEN <<resp.message>>
    ELSE <<"Vercel API error: ",
           IF resp.body.error.message = "" THEN resp.statusText ELSE resp.body.error.message>>

\* C10: a createProject whose lookup returns no project (404, another HTTP
\* error, a transport error) issues exactly one create request and never
\* reports the lookup's failure; when the create request fails it throws
\* "Failed to create Vercel project: " followed by the upstream message.
C10_CreateAfterFailedLookup ==
    (CreateProjectCalled /\ ~LookupFound) =>
        /\ pc \in {"postProject", "returned"}
        /\ Len(sent) = 2
        /\ Posts = {2}
        /\ sent[2].body.name = call.projectName
        /\ pc = "returned" =>
             /\ Len(received) = 2
             /\ IF received[2].kind = "response" /\ received[2].ok
                THEN ret = Return(received[2].body)
                ELSE ret = Throw(<<"Failed to create Vercel project: ">>
                                    \o CreateFailureText(received[2]))

\* the lookup failed with an HTTP error other than 404, and the create request
\* that followed failed too
C10_Witness ==
    /\ CreateProjectCalled
    /\ pc = "returned"
    /\ received[1].kind = "response"
    /\ received[1].status = 500
    /\ Len(received) = 2
    /\ received[2].kind = "response"
    /\ received[2].status = 409
    /\ ret = Throw(<<"Failed to create Vercel project: ", "Vercel API error: ",
                     "Project already exists">>)

(***************************************************************************)
(* VercelService.createDeployment and DeploymentService.deployRepository.  *)
(* A method that awaits is cut at its awaits: each piece maps the          *)
(* activation record and the answer it resumes with to a frame, the        *)
(* position reached, the activation record, the result and the requests    *)
(* issued on the way.                                                      *)
(***************************************************************************)
Frame(p, c, r, s) == [pc |-> p, call |-> c, ret |-> r, send |-> s]

\* obj[key] of a JSON object: undefined when the key is absent
Field(obj, key) == IF key \in DOMAIN obj THEN obj[key] ELSE Undefined

\* the body of the deployment-create request
DeploymentData(project, repoInfo) ==
    [name      |-> Field(project, "name"),
     project   |-> Field(project, "id"),
     gitSource |-> [type |-> "github", repo |-> repoInfo.fullName,
                    ref |-> repoInfo.defaultBranch, repoId |-> repoInfo.repoId]]

\* createDeployment up to its await
PostDeployment(token, project, repoInfo) ==
    [api |-> "vercel", method |-> "POST", auth |-> token,
     path |-> <<"/v13/deployments">>, body |-> DeploymentData(project, repoInfo)]

\* createDeployment after its request
createDeploymentResult(resp) ==
    IF resp.kind = "reject"
    THEN Throw(<<"Failed to create deployment: ", resp.message>>)
    ELSE IF ~resp.ok
    THEN Throw(<<"Failed to create deployment: ", "Vercel deployment error: ",
                 ErrorText(resp)>>)
    ELSE Return(resp.body)

\* the deployment failure passed on without the prefix
deployRepositoryCatch_bare(error) == Throw(error.message)

\* the catch block of deployRepository
deployRepositoryCatch(error) == Throw(<<"Deployment failed: ">> \o error.message)

SuccessMessage(repoInfo) ==
    <<"Successfully initiated deployment of ">> \o repoInfo.fullName \o <<" to Vercel">>

\* the activation record of deployRepository: its arguments and its locals
DeployCall(tokens, params) ==
    [fn |-> "deployRepository", tokens |-> tokens, params |-> params,
     repoInfo |-> NullObject, projectName |-> Undefined, framework |-> Undefined,
     project |-> NullObject]

\* deployRepository up to its first await, inside validateRepository
deployRepository(tokens, params) ==
    LET c      == DeployCall(tokens, params)
        parsed == parseGitHubUrl(params.repoUrl)
    IN  IF parsed.kind = "throw"
        THEN Frame("returned", c,
                   deployRepositoryCatch(
                       validateRepositoryCatch([message |-> parsed.message],
                                               params.repoUrl)),
                   <<>>)
        ELSE Frame("repos.get", c, None,
                   <<[api |-> "github", method |-> "GET", auth |-> tokens.githubToken,
                      owner |-> parsed.value.owner, repo |-> parsed.value.repo]>>)

\* resumed with the answer of the repository lookup: steps 2 and 3 up to the
\* project lookup of createProject
deployRepository_afterReposGet(c, resp) ==
    IF ~resp.ok
    THEN Frame("returned", c,
               deployRepositoryCatch(validateRepositoryCatch(resp.error, c.params.repoUrl)),
               <<>>)
    ELSE LET repoInfo    == GitHubRepoInfo(resp.data)
             projectName == generateProjectName(repoInfo, c.params.projectName)
             framework   == IF Truthy(c.params.framework) THEN c.params.framework
                            ELSE Static
         IN  Frame("getProject",
                   [c EXCEPT !.repoInfo = repoInfo, !.projectName = projectName,
                             !.framework = framework],
                   None,
                   <<[api |-> "vercel", method |-> "GET", auth |-> c.tokens.vercelToken,
                      path |-> <<"/v9/projects/">> \o projectName]>>)

\* resumed with the answer of the project lookup: step 4 with the project
\* found, or the create request
deployRepository_afterGetProject(c, resp) ==
    IF UseExisting(getProject(resp))
    THEN Frame("postDeployment", [c EXCEPT !.project = getProject(resp).value], None,
               <<PostDeployment(c.tokens.vercelToken, getProject(resp).value, c.repoInfo)>>)
    ELSE Frame("postProject", c, None,
               <<[api |-> "vercel", method |-> "POST", auth |-> c.tokens.vercelToken,
                  path |-> <<"/v9/projects">>,
                  body |-> ProjectData(c.projectName, c.repoInfo, c.framework)]>>)

\* the deployment requested whatever the create request answered
deployRepository_afterPostProject_proceed(c, resp) ==
    Frame("postDeployment", c, None,
          <<PostDeployment(c.tokens.vercelToken, c.project, c.repoInfo)>>)

\* resumed with the answer of the create request
deployRepository_afterPostProject(c, resp) ==
    LET created == createProjectResult(resp)
    IN  IF created.kind = "throw"
        THEN Frame("returned", c, deployRepositoryCatch(created), <<>>)
        ELSE Frame("postDeployment", [c EXCEPT !.project = created.value], None,
                   <<PostDeployment(c.tokens.vercelToken, created.value, c.repoInfo)>>)

\* resumed with the answer of the deployment-create request
deployRepository_afterPostDeployment(c, resp) ==
    LET deployment == createDeploymentResult(resp)
    IN  IF deployment.kind = "throw"
        THEN Frame("returned", c, deployRepositoryCatch(deployment), <<>>)
        ELSE Frame("returned", c,
                   Return([deployment |-> deployment.value, project |-> c.project,
                           message |-> SuccessMessage(c.repoInfo)]),
                   <<>>)

(***************************************************************************)
(* The deploy flow, one execution at a time, against a platform that may   *)
(* answer every request with a success, an HTTP error or a transport       *)
(* error.                                                                  *)
(***************************************************************************)
Tokens == [githubToken : GitHubTokens, vercelToken : VercelTokens]

\* project names a caller passes: none, the empty one, one that sanitizes to
\* "my-project", one without a character of [a-z0-9-]
DeployNames == {Undefined, <<>>, MyProjectBang, <<"!">>}

\* framework arguments: none, the empty one, "static", "nextjs"
DeployFrameworks == Frameworks \cup {<<>>}

DeployParams ==
    [repoUrl : RepoUrls, projectName : DeployNames, framework : DeployFrameworks]

\* project bodies without a usable id: the key absent, the id empty
MalformedProjects(name) ==
    { [name |-> name, accountId |-> "team_1"],
      [id |-> <<>>, name |-> name, accountId |-> "team_1"] }

\* answers of GET /v9/projects/{name}; the code takes any 200 body as a project
ProvisionLookupResponses(name) ==
    LookupResponses(name) \cup { Response(200, "OK", p) : p \in MalformedProjects(name) }

\* answers of POST /v9/projects
ProvisionCreateResponses(name) ==
    CreateResponses(name) \cup { Response(200, "OK", p) : p \in MalformedProjects(name) }

\* answers of POST /v13/deployments
DeploymentCreateResponses(data) ==
    { Response(200, "OK",
               [id |-> "dpl_1", url |-> "acme-site-abc.vercel.app", name |-> data.name,
                state |-> "QUEUED", projectId |-> data.project]),
      Response(200, "OK",
               [id |-> "dpl_2", url |-> "acme-site-def.vercel.app", name |-> data.name,
                state |-> "READY", projectId |-> data.project,
                inspectorUrl |-> "https://vercel.com/acme/site/dpl_2"]),
      Response(404, "Not Found", ErrorBody("Project not found")) }
        \cup VercelFailures

\* the platform after a create request answered resp
Created(resp, name) ==
    IF resp.kind = "response" /\ resp.ok THEN projects \cup {VercelProject(name)} ELSE projects

\* the execution moves to the frame
Resume(f) ==
    /\ pc' = f.pc
    /\ call' = f.call
    /\ ret' = f.ret
    /\ sent' = sent \o f.send

DeployRepository(tokens, params) ==
    /\ pc = "idle"
    /\ Resume(deployRepository(tokens, params))
    /\ received' = <<>>
    /\ UNCHANGED projects

DeployReposGetResponse ==
    /\ pc = "repos.get"
    /\ call.fn = "deployRepository"
    /\ \E resp \in GitHubResponses :
         /\ received' = Append(received, resp)
         /\ Resume(deployRepository_afterReposGet(call, resp))
    /\ UNCHANGED projects

DeployGetProjectResponse ==
    /\ pc = "getProject"
    /\ call.fn = "deployRepository"
    /\ \E resp \in ProvisionLookupResponses(call.projectName) :
         /\ received' = Append(received, resp)
         /\ Resume(deployRepository_afterGetProject(call, resp))
    /\ UNCHANGED projects

DeployPostProjectResponse ==
    /\ pc = "postProject"
    /\ call.fn = "deployRepository"
    /\ \E resp \in ProvisionCreateResponses(call.projectName) :
         /\ received' = Append(received, resp)
         /\ Resume(deployRepository_afterPostProject(call, resp))
         /\ projects' = Created(resp, call.projectName)

DeployPostDeploymentResponse ==
    /\ pc = "postDeployment"
    /\ call.fn = "deployRepository"
    /\ \E resp \in DeploymentCreateResponses(sent[Len(sent)].body) :
         /\ received' = Append(received, resp)
         /\ Resume(deployRepository_afterPostDeployment(call, resp))
    /\ UNCHANGED projects

NextDeploy ==
    \/ \E t \in Tokens, p \in DeployParams : DeployRepository(t, p)
    \/ DeployReposGetResponse
    \/ DeployGetProjectResponse
    \/ DeployPostProjectResponse
    \/ DeployPostDeploymentResponse
    \/ Settle

SpecDeploy == Init /\ [][NextDeploy]_vars

(***************************************************************************)
(* AppController: handleTool with its two ways of carrying the credentials *)
(* (the Authorization header with a combined Bearer token, the x-github    *)
(* and x-vercel headers), handleDeployRepo and handleGetDeploymentStatus.  *)
(* What the controller sends to the client is appended to `sent` like the  *)
(* upstream requests, with api "client".                                   *)
(***************************************************************************)
\* a JSON value that is a number, not a string; no text equals it
Number42 == <<"number", "42">>

\* typeof x === 'string'
IsString(x) == x # Undefined /\ x # Number42

GithubCom == <<"g","i","t","h","u","b",".","c","o","m">>

\* s.includes(sub)
Includes(s, sub) ==
    \E i \in 0..(Len(s) - Len(sub)) : SubSeq(s, i + 1, i + Len(sub)) = sub

BearerPrefix == <<"B","e","a","r","e","r"," ">>

\* new BaseErrorResponseDto(message, code, details): the envelope is the record
\* of what it was constructed from
ErrorResponse(message, code, details) ==
    [dto |-> "BaseErrorResponseDto", message |-> message, code |-> code,
     details |-> details]

\* new BaseSuccessResponseDto(data, 'mixed')
SuccessResponse(data) ==
    [dto |-> "BaseSuccessResponseDto", data |-> data, type |-> "mixed"]

\* the status never set: every envelope goes out with Express's default
Send_default(status, body) == [api |-> "client", status |-> 200, body |-> body]

\* res.status(status).json(body); res.json(body) sends with status 200
Send(status, body) == [api |-> "client", status |-> status, body |-> body]

\* the catch block of handleTool
handleToolCatch(error) ==
    Send(500, ErrorResponse(error.message, 500, "Tool execution failed"))

validateDeployRepoParameters(params) ==
    LET repoUrl     == Field(params, "repoUrl")
        projectName == Field(params, "projectName")
        framework   == Field(params, "framework")
    IN  IF ~Truthy(repoUrl)
        THEN Throw(<<"Missing required parameter: repoUrl">>)
        ELSE IF ~IsString(repoUrl)
        THEN Throw(<<"Parameter 'repoUrl' must be a string">>)
        ELSE IF ~Includes(repoUrl, GithubCom)
        THEN Throw(<<"Parameter 'repoUrl' must be a valid GitHub repository URL">>)
        ELSE IF Truthy(projectName) /\ ~IsString(projectName)
        THEN Throw(<<"Parameter 'projectName' must be a string">>)
        ELSE IF Truthy(framework) /\ ~IsString(framework)
        THEN Throw(<<"Parameter 'framework' must be a string">>)
        ELSE Return(Undefined)

\* the token after "Bearer ", or null
extractBearerToken(req) ==
    LET authHeader == req.headers.authorization
    IN  IF Truthy(authHeader) /\ StartsWith(authHeader, BearerPrefix)
        THEN Drop(authHeader, Len(BearerPrefix))
        ELSE NullString

\* the two trimmed header values, or null when one is missing or blank
extractTokensFromHeaders(req) ==
    LET githubToken == req.headers.xGithub
        vercelToken == req.headers.xVercel
    IN  IF ~Truthy(githubToken) \/ ~Truthy(vercelToken)
        THEN NullObject
        ELSE IF Trim(githubToken) = <<>> \/ Trim(vercelToken) = <<>>
        THEN NullObject
        ELSE [githubToken |-> Trim(githubToken), vercelToken |-> Trim(vercelToken)]

Proceed(tokens) == [kind |-> "tokens", tokens |-> tokens]

Reply(envelope) == [kind |-> "reply", envelope |-> envelope]

\* handleTool up to the dispatch on the tool name, with the Bearer token
authenticateBearer(req) ==
    LET token == extractBearerToken(req)
    IN  IF token = NullString \/ token = <<>>
        THEN Reply(Send(401, ErrorResponse(
                 <<"Deployment tools require authentication. Please provide Bearer token in format \"github_token:vercel_token\"">>,
                 401, "Missing Authorization header with Bearer token")))
        ELSE IF parseTokens(token).kind = "throw"
        THEN Reply(Send(400, ErrorResponse(parseTokens(token).message, 400,
                 "Token format should be \"github_token:vercel_token\"")))
        ELSE Proceed(parseTokens(token).value)

\* handleTool up to the dispatch on the tool name, with the two headers
authenticateHeaders(req) ==
    LET tokens == extractTokensFromHeaders(req)
    IN  IF tokens = NullObject
        THEN Reply(Send(401, ErrorResponse(
                 <<"Deployment tools require authentication. Please provide x-github and x-vercel headers">>,
                 401, "Missing x-github and/or x-vercel headers")))
        ELSE Proceed(tokens)

\* params.framework || 'static'
FrameworkOrStatic(params) ==
    IF Truthy(Field(params, "framework")) THEN params.framework ELSE Static

\* a failure of deployRepository left to the catch block of handleTool
DeployEnvelope_uncaught(params, result) ==
    IF result.kind = "throw"
    THEN Send(500, ErrorResponse(result.message, 500, "Tool execution failed"))
    ELSE Send(200, SuccessResponse([tool_type |-> "deployment"]))

\* what handleDeployRepo sends once deployRepository has settled
DeployEnvelope(params, result) ==
    IF result.kind = "throw"
    THEN Send(400, ErrorResponse(result.message, 400, "Deployment failed"))
    ELSE Send(200, SuccessResponse(
            [deploymentId  |-> result.value.deployment.id,
             deploymentUrl |-> <<"https://", result.value.deployment.url>>,
             projectName   |-> Field(result.value.project, "name"),
             status        |-> result.value.deployment.state,
             message       |-> result.value.message,
             repository    |-> params.repoUrl,
             framework     |-> FrameworkOrStatic(params),
             inspectorUrl  |-> Field(result.value.deployment, "inspectorUrl"),
             tool_type     |-> "deployment"]))

\* new Date(createdAt).toISOString(); the number of milliseconds is written as
\* its digits
ToISOString(createdAt) ==
    IF createdAt = "1700000000000"
    THEN Return("2023-11-14T22:13:20.000Z")
    ELSE Throw(<<"Invalid time value">>)

\* what handleGetDeploymentStatus sends once getDeploymentStatus has settled;
\* the date conversion is inside the try block
StatusEnvelope(result) ==
    LET createdAt == IF "createdAt" \in DOMAIN result.value.deployment
                     THEN ToISOString(result.value.deployment.createdAt)
                     ELSE Throw(<<"Invalid time value">>)
    IN  IF result.kind = "throw"
        THEN Send(400, ErrorResponse(result.message, 400, "Failed to get deployment status"))
        ELSE IF createdAt.kind = "throw"
        THEN Send(400, ErrorResponse(createdAt.message, 400, "Failed to get deployment status"))
        ELSE Send(200, SuccessResponse(
                [deploymentId  |-> result.value.deployment.id,
                 status        |-> result.value.deployment.state,
                 deploymentUrl |-> <<"https://", result.value.deployment.url>>,
                 message       |-> result.value.message,
                 isLive        |-> result.value.isLive,
                 hasError      |-> result.value.hasError,
                 createdAt     |-> createdAt.value,
                 inspectorUrl  |-> Field(result.value.deployment, "inspectorUrl"),
                 tool_type     |-> "deployment_status"]))

\* the activation record of handleTool; service is that of the Orchestrator
\* method it awaits
ToolCall(transport, req) ==
    [fn |-> "handleTool", transport |-> transport, req |-> req, service |-> NoCall]

\* handleDeployRepo around a piece of deployRepository: when deployRepository
\* has settled the envelope follows at once
handleDeployRepo_resume(c, f) ==
    Frame(IF f.pc = "returned" THEN "responded" ELSE f.pc,
          [c EXCEPT !.service = f.call],
          f.ret,
          IF f.pc = "returned"
          THEN f.send \o <<DeployEnvelope(c.req.params, f.ret)>>
          ELSE f.send)

\* handleDeployRepo up to its await: the parameters are validated before the
\* try block, so a validation error is caught by handleTool
handleDeployRepo(c, tokens, params) ==
    LET valid == validateDeployRepoParameters(params)
    IN  IF valid.kind = "throw"
        THEN Frame("responded", c, None, <<handleToolCatch(valid)>>)
        ELSE handleDeployRepo_resume(c,
                 deployRepository(tokens,
                     [repoUrl     |-> params.repoUrl,
                      projectName |-> Field(params, "projectName"),
                      framework   |-> FrameworkOrStatic(params)]))

\* !params.deploymentId
MissingDeploymentId(params) ==
    "deploymentId" \notin DOMAIN params \/ params.deploymentId = ""

\* handleGetDeploymentStatus up to its await; the check of deploymentId is
\* before the try block too
handleGetDeploymentStatus(c, vercelToken, params) ==
    IF MissingDeploymentId(params)
    THEN Frame("responded", c, None,
               <<handleToolCatch(Throw(<<"Missing required parameter: deploymentId">>))>>)
    ELSE Frame("getDeployment",
               [c EXCEPT !.service = [fn |-> "getDeploymentStatus",
                                      vercelToken |-> vercelToken,
                                      deploymentId |-> params.deploymentId]],
               None,
               <<[api |-> "vercel", method |-> "GET", auth |-> vercelToken,
                  path |-> <<"/v13/deployments/", params.deploymentId>>]>>)

\* handleGetDeploymentStatus resumed with the answer of the status request
handleGetDeploymentStatus_afterGet(c, resp) ==
    LET result == getDeploymentStatus(vercelGetDeploymentStatus(resp))
    IN  Frame("responded", c, result, <<StatusEnvelope(result)>>)

\* handleTool up to its first await or to its response
handleTool(transport, req) ==
    LET c    == ToolCall(transport, req)
        auth == IF transport = "bearer" THEN authenticateBearer(req)
                ELSE authenticateHeaders(req)
    IN  IF auth.kind = "reply"
        THEN Frame("responded", c, None, <<auth.envelope>>)
        ELSE IF req.toolName = "deployRepo"
        THEN handleDeployRepo(c, auth.tokens, req.params)
        ELSE IF req.toolName = "getDeploymentStatus"
        THEN handleGetDeploymentStatus(c, auth.tokens.vercelToken, req.params)
        ELSE Frame("responded", c, None,
                   <<Send(404, ErrorResponse(<<"Unknown tool: ", req.toolName>>, 404,
                              "Available tools: deployRepo, getDeploymentStatus"))>>)

(***************************************************************************)
(* Requests to the controller and the answers of the two APIs.             *)
(***************************************************************************)
Transports == {"bearer", "headers"}

\* what follows "Bearer ": nothing, a pair, a pair to trim, a side missing or
\* blank, no separator, two separators
BearerTokens ==
    { <<>>, <<"g",":","v">>, <<" ","g"," ",":","v">>, <<"g",":">>, <<":","v">>,
      <<"g",":"," ">>, <<"g">>, <<"g",":","v",":","x">> }

AuthorizationHeaders ==
    { Undefined, <<"B","a","s","i","c"," ","x">> }
        \cup { BearerPrefix \o t : t \in BearerTokens }

\* values of x-github (c is "g") and x-vercel (c is "v"): absent, empty, blank,
\* a token, a token to trim
HeaderValues(c) == { Undefined, <<>>, <<" ">>, <<c>>, <<" ", c, " ">> }

Headers(transport) ==
    IF transport = "bearer"
    THEN [authorization : AuthorizationHeaders, xGithub : {Undefined}, xVercel : {Undefined}]
    ELSE [authorization : {Undefined}, xGithub : HeaderValues("g"),
          xVercel : HeaderValues("v")]

ToolNames == {"deployRepo", "getDeploymentStatus", "listProjects"}

\* repoUrl of a request body: absent, empty, a number, references that name
\* github.com (one of them no repository reference), one that does not
ToolRepoUrls ==
    { Undefined, <<>>, Number42, AcmeSiteUrl, GithubCom,
      GitAtGithub \o <<"o","/","R","_","x">> \o DotGit, InvalidUrl }

\* request bodies: every repoUrl without the optional parameters, every pair of
\* optional parameters with a repoUrl that is accepted, and those of
\* getDeploymentStatus
Bodies ==
    [repoUrl : ToolRepoUrls, projectName : {Undefined}, framework : {Undefined}]
        \cup [repoUrl : {AcmeSiteUrl}, projectName : {Undefined, MyProjectBang, Number42},
              framework : {Undefined, <<>>, NextJs, Static, Number42}]
        \cup { [deploymentId |-> "dpl_1"], [deploymentId |-> ""],
               [repoUrl |-> AcmeSiteUrl] }

Requests(transport) ==
    [headers : Headers(transport), toolName : ToolNames, params : Bodies]

\* answers of GET /v13/deployments/{id}: those above, whose bodies carry no
\* createdAt, and two that carry one
StatusResponses(id) ==
    DeploymentResponses(id)
        \cup { Response(200, "OK",
                        [id |-> id, url |-> "acme-site.vercel.app", name |-> AcmeSiteName,
                         state |-> st, projectId |-> VercelProject(AcmeSiteName).id,
                         createdAt |-> "1700000000000"]) : st \in {"READY", "BUILDING"} }

HandleTool(transport, req) ==
    /\ pc = "idle"
    /\ LET f == handleTool(transport, req) IN Resume(f)
    /\ received' = <<>>
    /\ UNCHANGED projects

Deploying == call.fn = "handleTool" /\ call.service.fn = "deployRepository"

ToolReposGetResponse ==
    /\ pc = "repos.get"
    /\ Deploying
    /\ \E resp \in GitHubResponses :
         /\ received' = Append(received, resp)
         /\ LET f == handleDeployRepo_resume(call,
                       deployRepository_afterReposGet(call.service, resp))
            IN  Resume(f)
    /\ UNCHANGED projects

ToolGetProjectResponse ==
    /\ pc = "getProject"
    /\ Deploying
    /\ \E resp \in ProvisionLookupResponses(call.service.projectName) :
         /\ received' = Append(received, resp)
         /\ LET f == handleDeployRepo_resume(call,
                       deployRepository_afterGetProject(call.service, resp))
            IN  Resume(f)
    /\ UNCHANGED projects

ToolPostProjectResponse ==
    /\ pc = "postProject"
    /\ Deploying
    /\ \E resp \in ProvisionCreateResponses(call.service.projectName) :
         /\ received' = Append(received, resp)
         /\ LET f == handleDeployRepo_resume(call,
                       deployRepository_afterPostProject(call.service, resp))
            IN  Resume(f)
         /\ projects' = Created(resp, call.service.projectName)

ToolPostDeploymentResponse ==
    /\ pc = "postDeployment"
    /\ Deploying
    /\ \E resp \in DeploymentCreateResponses(sent[Len(sent)].body) :
         /\ received' = Append(received, resp)
         /\ LET f == handleDeployRepo_resume(call,
                       deployRepository_afterPostDeployment(call.service, resp))
            IN  Resume(f)
    /\ UNCHANGED projects

ToolGetDeploymentResponse ==
    /\ pc = "getDeployment"
    /\ call.fn = "handleTool"
    /\ \E resp \in StatusResponses(call.service.deploymentId) :
         /\ received' = Append(received, resp)
         /\ Resume(handleGetDeploymentStatus_afterGet(call, resp))
    /\ UNCHANGED projects

\* handleTool has returned; the next request is taken
NextRequest ==
    /\ pc = "responded"
    /\ pc' = "idle"
    /\ call' = NoCall
    /\ ret' = None
    /\ sent' = <<>>
    /\ received' = <<>>
    /\ UNCHANGED projects

NextController ==
    \/ \E tr \in Transports : \E req \in Requests(tr) : HandleTool(tr, req)
    \/ ToolReposGetResponse
    \/ ToolGetProjectResponse
    \/ ToolPostProjectResponse
    \/ ToolPostDeploymentResponse
    \/ ToolGetDeploymentResponse
    \/ NextRequest

SpecController == Init /\ [][NextController]_vars

(***************************************************************************)
(* Properties of the controller.                                           *)
(***************************************************************************)
IsEnvelope(m) == m.api = "client"

IsError(m) == m.body.dto = "BaseErrorResponseDto"

IsSuccess(m) == m.body.dto = "BaseSuccessResponseDto"

IsUpstream(m) == m.api # "client"

\* what the client was sent, in order
Envelopes == SelectSeq(sent, IsEnvelope)

\* the requests to GitHub and Vercel, in order
Upstream == SelectSeq(sent, IsUpstream)

Handling == call.fn = "handleTool"

Responded == Handling /\ pc = "responded"

\* a combined token with one ":" and text on both sides of it
WellFormedToken(t) ==
    /\ Cardinality(Colons(t)) = 1
    /\ ~Blank(Take(t, Min(Colons(t)) - 1))
    /\ ~Blank(Drop(t, Min(Colons(t))))

Present(h) == h # Undefined /\ ~Blank(h)

\* the request carries both credentials, in the way its transport expects
ValidCredentials ==
    LET h == call.req.headers
    IN  IF call.transport = "bearer"
        THEN /\ h.authorization # Undefined
             /\ StartsWith(h.authorization, BearerPrefix)
             /\ WellFormedToken(Drop(h.authorization, Len(BearerPrefix)))
        ELSE Present(h.xGithub) /\ Present(h.xVercel)

Given(params, key) == key \in DOMAIN params /\ params[key] # Undefined

\* the parameters of the request fail the validation of its tool
InvalidParameters ==
    LET p == call.req.params
    IN  \/ /\ call.req.toolName = "deployRepo"
           /\ \/ ~Given(p, "repoUrl")
              \/ p.repoUrl = <<>>
              \/ p.repoUrl = Number42
              \/ ~Includes(p.repoUrl, GithubCom)
              \/ Given(p, "projectName") /\ p.projectName = Number42
              \/ Given(p, "framework") /\ p.framework = Number42
        \/ /\ call.req.toolName = "getDeploymentStatus"
           /\ ("deploymentId" \notin DOMAIN p \/ p.deploymentId = "")

\* C11: a request with valid credentials whose parameters fail validation is
\* answered with one error envelope of status 400, and neither an Orchestrator
\* method nor an upstream request is made for it.
C11_ValidationAnswered400 ==
    (Responded /\ ValidCredentials /\ InvalidParameters) =>
        /\ Len(Envelopes) = 1
        /\ Envelopes[1].status = 400
        /\ IsError(Envelopes[1])
        /\ Envelopes[1].body.code = 400
        /\ Upstream = <<>>
        /\ call.service = NoCall

\* a credential is absent or blank: a header missing or blank, or no Bearer
\* token, a token without separator, a token with a blank side
MissingCredential ==
    LET h == call.req.headers
        t == Drop(h.authorization, Len(BearerPrefix))
    IN  IF call.transport = "bearer"
        THEN \/ h.authorization = Undefined
             \/ ~StartsWith(h.authorization, BearerPrefix)
             \/ Colons(t) = {}
             \/ /\ Cardinality(Colons(t)) = 1
                /\ (Blank(Take(t, Min(Colons(t)) - 1)) \/ Blank(Drop(t, Min(Colons(t)))))
        ELSE ~Present(h.xGithub) \/ ~Present(h.xVercel)

\* C12: under both transports a request in which a credential is absent or
\* blank is answered, whatever its tool name and parameters, with one
\* authentication error of status 401, and reaches neither an Orchestrator
\* method nor an upstream API.
C12_Unauthenticated401 ==
    (Handling /\ MissingCredential) =>
        /\ pc = "responded"
        /\ Len(Envelopes) = 1
        /\ Envelopes[1].status = 401
        /\ IsError(Envelopes[1])
        /\ Envelopes[1].body.code = 401
        /\ Upstream = <<>>
        /\ call.service = NoCall
        /\ ret = None

\* the repository lookup of the deployRepo request was answered 404
LookupAnswered404 ==
    /\ Deploying
    /\ Len(received) >= 1
    /\ ~received[1].ok
    /\ HasStatus(received[1].error, 404)

VercelRequests == { i \in 1..Len(sent) : sent[i].api = "vercel" }

\* C13: when the GitHub lookup of an authenticated, valid deployRepo request
\* answers 404, the caller receives one error envelope of status 400 whose
\* message is "Deployment failed: Repository not found or not accessible: "
\* followed by the reference (it contains "not found"), and no request to
\* Vercel is issued.
C13_NotFoundAnswered400 ==
    LookupAnswered404 =>
        /\ pc = "responded"
        /\ Len(Envelopes) = 1
        /\ Envelopes[1].status = 400
        /\ IsError(Envelopes[1])
        /\ Envelopes[1].body.code = 400
        /\ Envelopes[1].body.message =
             <<"Deployment failed: ", "Repository not found or not accessible: ">>
                \o call.req.params.repoUrl
        /\ VercelRequests = {}
        /\ Len(Upstream) = 1

\* a deployRepo request sent with the two headers met a 404 of GitHub
C13_Witness ==
    /\ LookupAnswered404
    /\ pc = "responded"
    /\ call.transport = "headers"
    /\ call.req.params.repoUrl = AcmeSiteUrl
    /\ Envelopes[1].status = 400

\* the framework in effect: "static" when the caller gives none or an empty one
EffectiveFramework ==
    LET f == Field(call.req.params, "framework")
    IN  IF f = Undefined \/ f = <<>> THEN Static ELSE f

ProjectCreates ==
    { i \in 1..Len(sent) : /\ sent[i].api = "vercel"
                           /\ sent[i].method = "POST"
                           /\ sent[i].path = <<"/v9/projects">> }

\* C14: the framework preset of the project-create request is null exactly
\* when the framework in effect is "static" and that framework otherwise, and
\* the success envelope echoes the framework in effect.
C14_FrameworkPreset ==
    Deploying =>
        /\ \A i \in ProjectCreates :
              /\ (sent[i].body.framework = NullString) <=> (EffectiveFramework = Static)
              /\ EffectiveFramework # Static => sent[i].body.framework = EffectiveFramework
        /\ \A i \in 1..Len(Envelopes) :
              IsSuccess(Envelopes[i]) =>
                  Envelopes[i].body.data.framework = EffectiveFramework

\* a request with an empty framework created its project without preset and
\* was told "static"
C14_Witness ==
    /\ Deploying
    /\ pc = "responded"
    /\ Field(call.req.params, "framework") = <<>>
    /\ ProjectCreates # {}
    /\ \A i \in ProjectCreates : sent[i].body.framework = NullString
    /\ IsSuccess(Envelopes[1])
    /\ Envelopes[1].body.data.framework = Static

(***************************************************************************)
(* Properties of the deploy flow.                                          *)
(***************************************************************************)
DeployExecution == call.fn = "deployRepository"

\* the step of the flow a request belongs to
RequestKind(m) ==
    IF m.api = "github" THEN "repos.get"
    ELSE IF m.method = "GET" THEN "getProject"
    ELSE IF m.path = <<"/v9/projects">> THEN "postProject"
    ELSE "postDeployment"

RequestKinds == [i \in 1..Len(sent) |-> RequestKind(sent[i])]

IsPrefix(s, t) == Len(s) <= Len(t) /\ s = Take(t, Len(s))

\* a response with status 200
Ok200(resp) == resp.kind = "response" /\ resp.status = 200

\* C15: in every execution of deployRepository the upstream requests are a
\* prefix of: repository lookup, project lookup, project create (present
\* exactly when the project lookup returned no project), deployment create.
\* A request is issued only when every earlier one has been answered, the
\* deployment create only after a successful repository lookup and a
\* successful lookup or create of the project, and no request is repeated.
C15_RequestOrder ==
    DeployExecution =>
        /\ \/ IsPrefix(RequestKinds, <<"repos.get", "getProject", "postProject", "postDeployment">>)
           \/ RequestKinds = <<"repos.get", "getProject", "postDeployment">>
        /\ Len(received) \in {Len(sent) - 1, Len(sent)}
        /\ pc = "returned" => Len(received) = Len(sent)
        /\ Len(sent) >= 2 => received[1].ok
        /\ Len(sent) >= 3 => (RequestKinds[3] = "postProject" <=> ~Ok200(received[2]))
        /\ \A i \in 1..Len(sent) :
              RequestKinds[i] = "postDeployment" => Ok200(received[i - 1])

\* an execution that issued the four requests and returned its result
C15_Witness ==
    /\ DeployExecution
    /\ pc = "returned"
    /\ ret.kind = "return"
    /\ RequestKinds = <<"repos.get", "getProject", "postProject", "postDeployment">>
    /\ Len(received) = 4

\* the answer to the i-th request makes its step fail; a failed project lookup
\* does not, createProject goes on to the create request
StepFailed(i) ==
    CASE RequestKinds[i] = "repos.get"  -> ~received[i].ok
      [] RequestKinds[i] = "getProject" -> FALSE
      [] OTHER -> received[i].kind = "reject" \/ ~received[i].ok

\* the error of the step that the i-th request belongs to
StepError(i) ==
    CASE RequestKinds[i] = "repos.get" ->
             validateRepositoryCatch(received[i].error, call.params.repoUrl)
      [] RequestKinds[i] = "postProject" -> createProjectResult(received[i])
      [] OTHER -> createDeploymentResult(received[i])

\* C16: when a step of deployRepository fails (the reference does not parse,
\* or the repository lookup, the project create or the deployment create
\* fails), the failing request is the last one issued, so that no later step
\* runs and nothing is undone (a project created before stays on the
\* platform), no DeploymentResult is returned, and the error thrown is
\* "Deployment failed: " followed by the failing step's own message.
C16_FailureAborts ==
    DeployExecution =>
        /\ parseGitHubUrl(call.params.repoUrl).kind = "throw" =>
              /\ sent = <<>>
              /\ pc = "returned"
              /\ ret = Throw(<<"Deployment failed: ", "GitHub API error: ">>
                                \o InvalidUrlMessage(call.params.repoUrl))
        /\ \A i \in 1..Len(received) :
              StepFailed(i) =>
                  /\ Len(sent) = i
                  /\ pc = "returned"
                  /\ ret = Throw(<<"Deployment failed: ">> \o StepError(i).message)
                  /\ (i = 4 /\ Ok200(received[3])) =>
                        VercelProject(call.projectName) \in projects
        /\ (pc = "returned" /\ ret.kind = "return") =>
              /\ Len(received) \in {3, 4}
              /\ \A i \in 1..Len(received) : ~StepFailed(i)

\* the deployment create failed after the project had been created
C16_Witness ==
    /\ DeployExecution
    /\ pc = "returned"
    /\ Len(received) = 4
    /\ Ok200(received[3])
    /\ received[4].kind = "response"
    /\ received[4].status = 403
    /\ VercelProject(call.projectName) \in projects
    /\ ret = Throw(<<"Deployment failed: ", "Failed to create deployment: ",
                     "Vercel deployment error: ", "Not authorized">>)

DeploymentCreates == { i \in 1..Len(sent) : RequestKinds[i] = "postDeployment" }

\* C17: whenever deployRepository issues a deployment-create request, the
\* project the request references, fetched by the lookup or returned by the
\* create request, has a non-empty id; a provisioning answer without a usable
\* id leads to no deployment-create request.
C17_ProjectHasId ==
    DeployExecution =>
        \A i \in DeploymentCreates :
            /\ "id" \in DOMAIN received[i - 1].body
            /\ received[i - 1].body.id # <<>>
            /\ sent[i].body.project = received[i - 1].body.id

AwaitedRequests == {"repos.get", "getProject", "postProject", "postDeployment", "getDeployment"}

\* C18: every invocation of handleTool sends exactly one envelope: none while
\* it awaits the answer of an upstream request, which is then the only
\* unanswered one, and one, the last message it sends, once it has finished;
\* an error envelope goes out with the status that is its code, a success
\* envelope with 200.
C18_OneEnvelope ==
    Handling =>
        /\ Len(Envelopes) = (IF pc = "responded" THEN 1 ELSE 0)
        /\ pc = "responded" =>
              /\ IsEnvelope(sent[Len(sent)])
              /\ Len(Upstream) = Len(received)
        /\ pc # "responded" =>
              /\ pc \in AwaitedRequests
              /\ Len(Upstream) = Len(received) + 1
        /\ \A i \in 1..Len(Envelopes) :
              IF IsError(Envelopes[i])
              THEN /\ Envelopes[i].status = Envelopes[i].body.code
                   /\ Envelopes[i].status \in {400, 401, 404, 500}
              ELSE /\ IsSuccess(Envelopes[i])
                   /\ Envelopes[i].status = 200

\* a deployRepo request whose deployment create failed was answered 400
C18_Witness ==
    /\ Responded
    /\ Deploying
    /\ Len(Upstream) = 4
    /\ Len(Envelopes) = 1
    /\ IsError(Envelopes[1])
    /\ Envelopes[1].status = 400

(***************************************************************************)
(* Concurrent executions of deployRepository.  Each request of the server  *)
(* runs its own execution; the executions share nothing but the platform.  *)
(* Here pc, call, ret, sent and received hold one value per execution, and *)
(* GitHub and Vercel answer as the state of the platform requires: no      *)
(* failure is injected.                                                    *)
(***************************************************************************)
\* at most this many executions are in flight together
MaxExecutions == 2

Executions == 1..MaxExecutions

RaceParams ==
    [repoUrl : {AcmeSiteUrl, GitAtGithub \o <<"o","/","R","_","x">> \o DotGit},
     projectName : {Undefined}, framework : {Undefined}]

\* GitHub's answer for a repository it has; names are matched without regard
\* to case
RepoAnswer(request) ==
    LET d == CHOOSE d \in GitHubData :
                 /\ ToLowerCase(d.owner.login) = ToLowerCase(request.owner)
                 /\ ToLowerCase(d.name) = ToLowerCase(request.repo)
    IN  [ok |-> TRUE, data |-> d]

\* Vercel's answer to GET /v9/projects/{name}
LookupAnswer(name) ==
    IF VercelProject(name) \in projects
    THEN Response(200, "OK", VercelProject(name))
    ELSE Response(404, "Not Found", ErrorBody("Project not found"))

\* Vercel's answer to POST /v9/projects
CreateAnswer(name) ==
    IF VercelProject(name) \in projects
    THEN Response(409, "Conflict", ErrorBody("Project already exists"))
    ELSE Response(200, "OK", VercelProject(name))

\* Vercel's answer to POST /v13/deployments
DeploymentAnswer(data) ==
    Response(200, "OK",
             [id |-> "dpl_1", url |-> "acme-site-abc.vercel.app", name |-> data.name,
              state |-> "QUEUED", projectId |-> data.project])

\* execution e moves to the frame, having received resp
ResumeExecution(e, f, resp) ==
    /\ pc' = [pc EXCEPT ![e] = f.pc]
    /\ call' = [call EXCEPT ![e] = f.call]
    /\ ret' = [ret EXCEPT ![e] = f.ret]
    /\ sent' = [sent EXCEPT ![e] = @ \o f.send]
    /\ received' = [received EXCEPT ![e] = @ \o resp]

StartExecution(e, params) ==
    /\ pc[e] = "idle"
    /\ \E t \in Tokens : ResumeExecution(e, deployRepository(t, params), <<>>)
    /\ UNCHANGED projects

ExecutionReposGetResponse(e) ==
    /\ pc[e] = "repos.get"
    /\ LET resp == RepoAnswer(sent[e][1])
       IN  ResumeExecution(e, deployRepository_afterReposGet(call[e], resp), <<resp>>)
    /\ UNCHANGED projects

ExecutionGetProjectResponse(e) ==
    /\ pc[e] = "getProject"
    /\ LET resp == LookupAnswer(call[e].projectName)
       IN  ResumeExecution(e, deployRepository_afterGetProject(call[e], resp), <<resp>>)
    /\ UNCHANGED projects

ExecutionPostProjectResponse(e) ==
    /\ pc[e] = "postProject"
    /\ LET resp == CreateAnswer(call[e].projectName)
       IN  /\ ResumeExecution(e, deployRepository_afterPostProject(call[e], resp), <<resp>>)
           /\ projects' = Created(resp, call[e].projectName)

ExecutionPostDeploymentResponse(e) ==
    /\ pc[e] = "postDeployment"
    /\ LET resp == DeploymentAnswer(sent[e][Len(sent[e])].body)
       IN  ResumeExecution(e, deployRepository_afterPostDeployment(call[e], resp), <<resp>>)
    /\ UNCHANGED projects

InitRace ==
    /\ pc = [e \in Executions |-> "idle"]
    /\ call = [e \in Executions |-> NoCall]
    /\ ret = [e \in Executions |-> None]
    /\ sent = [e \in Executions |-> <<>>]
    /\ received = [e \in Executions |-> <<>>]
    /\ projects = {}

NextRace ==
    \E e \in Executions :
        \/ \E p \in RaceParams : StartExecution(e, p)
        \/ ExecutionReposGetResponse(e)
        \/ ExecutionGetProjectResponse(e)
        \/ ExecutionPostProjectResponse(e)
        \/ ExecutionPostDeploymentResponse(e)

SpecRace == InitRace /\ [][NextRace]_vars

\* the executions that resolved to the project name
Resolved(name) ==
    { e \in Executions : call[e].fn = "deployRepository" /\ call[e].projectName = name }

\* the create requests issued for the project name, by execution and position
CreatesOf(name) ==
    { x \in Executions \X (1..4) :
        /\ x[2] <= Len(sent[x[1]])
        /\ sent[x[1]][x[2]].api = "vercel"
        /\ sent[x[1]][x[2]].method = "POST"
        /\ sent[x[1]][x[2]].path = <<"/v9/projects">>
        /\ sent[x[1]][x[2]].body.name = name }

\* C19: for any interleaving of executions of deployRepository that resolve to
\* the same project name while no such project exists, at most one
\* project-create request is issued for the name, and every execution that has
\* finished obtained a project, requested its deployment and returned a result.
C19_SafeUnderConcurrency ==
    \A name \in {AcmeSiteName, <<"o","-","r","_","x">>} :
        /\ Cardinality(CreatesOf(name)) <= 1
        /\ \A e \in Resolved(name) :
              pc[e] = "returned" =>
                  /\ ret[e].kind = "return"
                  /\ ret[e].value.project = VercelProject(name)
                  /\ sent[e][Len(sent[e])].path = <<"/v13/deployments">>

\* a non-empty text over [a-z0-9-] without a leading, trailing or doubled "-"
ValidProjectName(n) ==
    /\ n # <<>>
    /\ \A i \in 1..Len(n) : n[i] \in NameClass
    /\ n[1] # "-"
    /\ n[Len(n)] # "-"
    /\ \A i \in 1..(Len(n) - 1) : ~(n[i] = "-" /\ n[i + 1] = "-")

\* the project lookups of the execution, the first requests of the Provisioner
ProjectLookups == { i \in 1..Len(sent) : RequestKinds[i] = "getProject" }

\* C20: the project name deployRepository passes to createProject is, for
\* every project name the caller gives and every validated repository, a
\* non-empty text over [a-z0-9-] without a leading, trailing or doubled "-",
\* whether it is the sanitized custom name or the synthesized "<owner>-<repo>".
C20_ValidProjectName ==
    DeployExecution =>
        \A i \in ProjectLookups :
            /\ sent[i].path = <<"/v9/projects/">> \o call.projectName
            /\ ValidProjectName(call.projectName)

=============================================================================
